---- MODULE Spec2Model ----
(***************************************************************************)
(* PlantUML server (axum + subprocess): the encoded-URL decoder            *)
(* (routes.rs: decode_plantuml), the request handlers (routes.rs:          *)
(* generate_diagram, render_encoded) and the subprocess executor           *)
(* (plantuml.rs: PlantUMLExecutor::generate).                               *)
(*                                                                         *)
(* Bytes are integers 0..255, characters are one-character strings, text   *)
(* is a sequence of bytes (UTF-8).                                          *)
(***************************************************************************)
EXTENDS Integers, Sequences, FiniteSets, TLC

\* ------------------------------------------------------------------ bounds
MaxSrcLen == 2
MaxTokLen == 4
PipeCap == 1

\* ------------------------------------------------------- small utilities
Min(a, b) == IF a < b THEN a ELSE b

Range(s) == { s[i] : i \in 1..Len(s) }

SeqsUpTo(S, n) == UNION { [1..k -> S] : k \in 0..n }

IsPrefix(p, s) == Len(p) <= Len(s) /\ SubSeq(s, 1, Len(p)) = p

\* ---------------------------------------------------------- DiagramFormat
Formats == {"Svg", "Png", "Txt"}

as_flag(format) ==
  CASE format = "Svg" -> "-tsvg"
    [] format = "Png" -> "-tpng"
    [] format = "Txt" -> "-txt"

content_type_PngAsSvg(format) ==
  CASE format = "Svg" -> "image/svg+xml"
    [] format = "Png" -> "image/svg+xml"
    [] format = "Txt" -> "text/plain"

content_type(format) ==
  CASE format = "Svg" -> "image/svg+xml"
    [] format = "Png" -> "image/png"
    [] format = "Txt" -> "text/plain"

\* ------------------------------------------------- decode_plantuml: remap
Digits == <<"0","1","2","3","4","5","6","7","8","9">>
Upper == <<"A","B","C","D","E","F","G","H","I","J","K","L","M",
           "N","O","P","Q","R","S","T","U","V","W","X","Y","Z">>
Lower == <<"a","b","c","d","e","f","g","h","i","j","k","l","m",
           "n","o","p","q","r","s","t","u","v","w","x","y","z">>

PLANTUML_ALPHABET == Digits \o Upper \o Lower \o <<"-", "_">>

\* the alphabet of base64::engine::general_purpose::STANDARD
STANDARD_ALPHABET == Upper \o Lower \o Digits \o <<"+", "/">>

\* Iterator::position: the 0-based index of the first match, -1 for None
Position(alphabet, ch) ==
  IF \E i \in 1..Len(alphabet) : alphabet[i] = ch
  THEN (CHOOSE i \in 1..Len(alphabet) :
          /\ alphabet[i] = ch
          /\ \A j \in 1..(i-1) : alphabet[j] # ch) - 1
  ELSE -1

\* (b'A' + idx) as char etc.: idx is 0-based
b64_char(idx) ==
  IF idx < 26 THEN Upper[idx + 1]
  ELSE IF idx < 52 THEN Lower[(idx - 26) + 1]
  ELSE IF idx < 62 THEN Digits[(idx - 52) + 1]
  ELSE IF idx = 62 THEN "+"
  ELSE "/"

RECURSIVE RemapSkipping(_, _)
RemapSkipping(encoded, acc) ==
  IF encoded = <<>> THEN [ok |-> TRUE, chars |-> acc, bad |-> ""]
  ELSE LET ch == Head(encoded)
           idx == Position(PLANTUML_ALPHABET, ch)
       IN IF idx = -1
          THEN RemapSkipping(Tail(encoded), acc)
          ELSE RemapSkipping(Tail(encoded), Append(acc, b64_char(idx)))

\* the for-loop of decode_plantuml: fails at the first character that is not
\* in PLANTUML_ALPHABET, else pushes the remapped character
RECURSIVE Remap(_, _)
Remap(encoded, acc) ==
  IF encoded = <<>> THEN [ok |-> TRUE, chars |-> acc, bad |-> ""]
  ELSE LET ch == Head(encoded)
           idx == Position(PLANTUML_ALPHABET, ch)
       IN IF idx = -1
          THEN [ok |-> FALSE, chars |-> <<>>, bad |-> ch]
          ELSE Remap(Tail(encoded), Append(acc, b64_char(idx)))

\* ------------------------------------------- decode_plantuml: base64 step
\* STANDARD.decode on a string of alphabet symbols (the remap never yields
\* '='): canonical padding is required, so only lengths that are a multiple
\* of four decode; each quad of 6-bit values gives three bytes.
RECURSIVE QuadsToBytes(_)
QuadsToBytes(vals) ==
  IF vals = <<>> THEN <<>>
  ELSE LET n == ((vals[1] * 64 + vals[2]) * 64 + vals[3]) * 64 + vals[4]
       IN << n \div 65536, (n \div 256) % 256, n % 256 >>
            \o QuadsToBytes(SubSeq(vals, 5, Len(vals)))

Base64Decode(str) ==
  IF Len(str) % 4 # 0
  THEN [ok |-> FALSE, bytes |-> <<>>]
  ELSE [ok |-> TRUE,
        bytes |-> QuadsToBytes([i \in 1..Len(str) |->
                                  Position(STANDARD_ALPHABET, str[i])])]

\* --------------------------------------------- decode_plantuml: zlib step
RECURSIVE AdlerFold(_, _, _)
AdlerFold(data, a, b) ==
  IF data = <<>> THEN b * 65536 + a
  ELSE LET a2 == (a + Head(data)) % 65521
       IN AdlerFold(Tail(data), a2, (b + a2) % 65521)

Adler32(data) == AdlerFold(data, 1, 0)

U32BE(n) == << n \div 16777216, (n \div 65536) % 256, (n \div 256) % 256, n % 256 >>

ZlibHeaderOk(cmf, flg) ==
  /\ cmf % 16 = 8
  /\ cmf \div 16 <= 7
  /\ (cmf * 256 + flg) % 31 = 0
  /\ (flg \div 32) % 2 = 0

\* Inflate of the deflate blocks. status: "end" (final block complete, rest
\* holds the trailer), "eof" (input ran out inside the stream), "bad"
\* (corrupt). Only stored blocks (BTYPE 00) are decoded; the tokens the model
\* feeds never contain a complete Huffman-coded block.
RECURSIVE InflateBlocks(_, _)
InflateBlocks(bytes, out) ==
  IF bytes = <<>> THEN [status |-> "eof", data |-> out, rest |-> <<>>]
  ELSE LET hdr == bytes[1]
           bfinal == hdr % 2
           btype == (hdr \div 2) % 4
       IN IF btype # 0 THEN [status |-> "bad", data |-> out, rest |-> <<>>]
          ELSE IF Len(bytes) < 5 THEN [status |-> "eof", data |-> out, rest |-> <<>>]
          ELSE LET len == bytes[2] + 256 * bytes[3]
                   nlen == bytes[4] + 256 * bytes[5]
               IN IF len + nlen # 65535
                  THEN [status |-> "bad", data |-> out, rest |-> <<>>]
                  ELSE IF Len(bytes) < 5 + len
                  THEN [status |-> "eof",
                        data |-> out \o SubSeq(bytes, 6, Len(bytes)),
                        rest |-> <<>>]
                  ELSE LET out2 == out \o SubSeq(bytes, 6, 5 + len)
                           rest == SubSeq(bytes, 6 + len, Len(bytes))
                       IN IF bfinal = 1
                          THEN [status |-> "end", data |-> out2, rest |-> rest]
                          ELSE InflateBlocks(rest, out2)

\* ZlibDecoder::read_to_end. A stream that ends before its last block or
\* trailer is reported as an error or returned as the data read so far,
\* depending on the library build: lenient selects the second.
ZlibDecode(bytes, lenient) ==
  LET trunc(data) == IF lenient THEN [ok |-> TRUE, data |-> data]
                     ELSE [ok |-> FALSE, data |-> <<>>]
  IN IF Len(bytes) < 2 THEN trunc(<<>>)
     ELSE IF ~ZlibHeaderOk(bytes[1], bytes[2]) THEN [ok |-> FALSE, data |-> <<>>]
     ELSE LET r == InflateBlocks(SubSeq(bytes, 3, Len(bytes)), <<>>)
          IN CASE r.status = "bad" -> [ok |-> FALSE, data |-> <<>>]
               [] r.status = "eof" -> trunc(r.data)
               [] r.status = "end" ->
                    IF Len(r.rest) < 4 THEN trunc(r.data)
                    ELSE IF SubSeq(r.rest, 1, 4) = U32BE(Adler32(r.data))
                    THEN [ok |-> TRUE, data |-> r.data]
                    ELSE [ok |-> FALSE, data |-> <<>>]

\* ---------------------------------------------------------- UTF-8, trim
IsCont(b) == b >= 128 /\ b <= 191

\* String::from_utf8 / read_to_string validation
RECURSIVE Utf8Valid(_)
Utf8Valid(b) ==
  IF b = <<>> THEN TRUE
  ELSE LET c == b[1]
           n == Len(b)
       IN IF c < 128 THEN Utf8Valid(Tail(b))
          ELSE IF c >= 194 /\ c <= 223
          THEN n >= 2 /\ IsCont(b[2]) /\ Utf8Valid(SubSeq(b, 3, n))
          ELSE IF c >= 224 /\ c <= 239
          THEN /\ n >= 3 /\ IsCont(b[2]) /\ IsCont(b[3])
               /\ (c = 224 => b[2] >= 160)
               /\ (c = 237 => b[2] <= 159)
               /\ Utf8Valid(SubSeq(b, 4, n))
          ELSE IF c >= 240 /\ c <= 244
          THEN /\ n >= 4 /\ IsCont(b[2]) /\ IsCont(b[3]) /\ IsCont(b[4])
               /\ (c = 240 => b[2] >= 144)
               /\ (c = 244 => b[2] <= 143)
               /\ Utf8Valid(SubSeq(b, 5, n))
          ELSE FALSE

\* char::is_whitespace on the one-byte characters
IsWhitespace(c) == c \in {9, 10, 11, 12, 13, 32}

TrimIsEmpty_NoTrim(text) == text = <<>>

\* source.trim().is_empty() for text of one-byte characters
TrimIsEmpty(text) == \A i \in 1..Len(text) : IsWhitespace(text[i])

\* ------------------------------------------------------- decode_plantuml
NoDetail == [kind |-> "none", ch |-> "", pid |-> 0, cause |-> ""]
CharDetail(ch) == [kind |-> "char", ch |-> ch, pid |-> 0, cause |-> ""]
CauseDetail(c) == [kind |-> "cause", ch |-> "", pid |-> 0, cause |-> c]

decode_plantuml_skipping(encoded, lenient) ==
  LET m == RemapSkipping(encoded, <<>>)
      b == Base64Decode(m.chars)
      z == ZlibDecode(b.bytes, lenient)
  IN IF ~b.ok
     THEN [ok |-> FALSE, text |-> <<>>, msg |-> <<"Base64 decode failed: ">>,
           detail |-> CauseDetail("base64::DecodeError")]
     ELSE IF ~z.ok \/ ~Utf8Valid(z.data)
     THEN [ok |-> FALSE, text |-> <<>>, msg |-> <<"Decompression failed: ">>,
           detail |-> CauseDetail("io::Error")]
     ELSE [ok |-> TRUE, text |-> z.data, msg |-> <<>>, detail |-> NoDetail]

decode_plantuml(encoded, lenient) ==
  LET m == Remap(encoded, <<>>)
      b == Base64Decode(m.chars)
      z == ZlibDecode(b.bytes, lenient)
  IN IF ~m.ok
     THEN [ok |-> FALSE, text |-> <<>>, msg |-> <<"Invalid character in encoding: ">>,
           detail |-> CharDetail(m.bad)]
     ELSE IF ~b.ok
     THEN [ok |-> FALSE, text |-> <<>>, msg |-> <<"Base64 decode failed: ">>,
           detail |-> CauseDetail("base64::DecodeError")]
     ELSE IF ~z.ok \/ ~Utf8Valid(z.data)
     THEN [ok |-> FALSE, text |-> <<>>, msg |-> <<"Decompression failed: ">>,
           detail |-> CauseDetail("io::Error")]
     ELSE [ok |-> TRUE, text |-> z.data, msg |-> <<>>, detail |-> NoDetail]

\* ------------------------------------------------- the external encoder
\* zlib stream with one stored block, as a compressor at level 0 writes it
ZlibStore(s) ==
  << 120, 1, 1, Len(s) % 256, Len(s) \div 256,
     255 - (Len(s) % 256), 255 - (Len(s) \div 256) >>
    \o s \o U32BE(Adler32(s))

RECURSIVE BytesToBits(_)
BytesToBits(bytes) ==
  IF bytes = <<>> THEN <<>>
  ELSE LET c == Head(bytes)
       IN << c \div 128, (c \div 64) % 2, (c \div 32) % 2, (c \div 16) % 2,
             (c \div 8) % 2, (c \div 4) % 2, (c \div 2) % 2, c % 2 >>
            \o BytesToBits(Tail(bytes))

\* 6-bit groups, most significant bit first, the last group zero-filled
RECURSIVE SixBitGroups(_)
SixBitGroups(bits) ==
  IF bits = <<>> THEN <<>>
  ELSE IF Len(bits) < 6 THEN SixBitGroups(bits \o [i \in 1..(6 - Len(bits)) |-> 0])
  ELSE << 32*bits[1] + 16*bits[2] + 8*bits[3] + 4*bits[4] + 2*bits[5] + bits[6] >>
         \o SixBitGroups(SubSeq(bits, 7, Len(bits)))

PlantumlEncode(s) ==
  LET g == SixBitGroups(BytesToBits(ZlibStore(s)))
  IN [i \in 1..Len(g) |-> PLANTUML_ALPHABET[g[i] + 1]]

\* ------------------------------------------------------------ requests
Requests == {1, 2}

Pids == 1..Cardinality(Requests)

SrcBytes == {32, 65, 255}

Bodies == SeqsUpTo(SrcBytes, MaxSrcLen)

TokChars == {"0", "4", "U", "!", "="}

\* tokens of the encoded routes: arbitrary short ones, and the encodings of
\* the bodies (a path segment is never empty)
Tokens == (SeqsUpTo(TokChars, MaxTokLen) \ {<<>>}) \cup { PlantumlEncode(s) : s \in Bodies }

NoReq == [kind |-> "none", body |-> <<>>, token |-> <<>>, format |-> "Svg"]

\* POST /plantuml/{svg,png,txt} with a body
BodyReqs(bodies) ==
  { [kind |-> "body", body |-> b, token |-> <<>>, format |-> f] :
      b \in bodies, f \in Formats }

\* GET /plantuml/{svg,png}/:encoded
EncodedReqs(tokens) ==
  { [kind |-> "encoded", body |-> <<>>, token |-> t, format |-> f] :
      t \in tokens, f \in {"Svg", "Png"} }

\* ---------------------------------------------------------------- state
VARIABLES
  req,       \* per request slot: the request being handled
  pc,        \* per request: position of its handler task
  source,    \* per request: the source String handed to generate
  written,   \* per request: bytes of source write_all has written so far
  child,     \* per request: pid of the Child it spawned, 0 if none
  result,    \* per request: what generate returned
  response,  \* per request: the Response of the handler
  procs      \* the subprocesses launched so far, by pid

vars == <<req, pc, source, written, child, result, response, procs>>

NoResult == [set |-> FALSE, ok |-> FALSE, val |-> <<>>, msg |-> <<>>, detail |-> NoDetail]
Ok(val) == [set |-> TRUE, ok |-> TRUE, val |-> val, msg |-> <<>>, detail |-> NoDetail]
Err(msg, detail) == [set |-> TRUE, ok |-> FALSE, val |-> <<>>, msg |-> msg, detail |-> detail]

NoResponse == [status |-> 0, content_type |-> "", body |-> <<>>, msg |-> <<>>, detail |-> NoDetail]

\* (StatusCode, Json(json!({"error": ...}))).into_response()
JsonError(status, msg, detail) ==
  [status |-> status, content_type |-> "application/json", body |-> <<>>,
   msg |-> msg, detail |-> detail]

\* the text an engine process writes to its standard error
StderrText(p, cause) == [kind |-> "stderr", ch |-> "", pid |-> p, cause |-> cause]

\* the artifact the engine renders from the input it read
Render(flag, input) == << [flag |-> flag, input |-> input] >>

\* Command::new("java")....spawn(): a fresh process with three pipes
NewProc(flag) ==
  [flag |-> flag, state |-> "running", stdinOpen |-> TRUE, rdOpen |-> TRUE,
   buf |-> <<>>, fed |-> <<>>, received |-> <<>>,
   status |-> 0, stdout |-> <<>>, stderr |-> NoDetail, awaited |-> FALSE]

SpawnPooled(ps, flag) ==
  IF ps = <<>> THEN [procs |-> Append(ps, NewProc(flag)), pid |-> Len(ps) + 1]
  ELSE [procs |-> ps, pid |-> 1]

Spawn(ps, flag) == [procs |-> Append(ps, NewProc(flag)), pid |-> Len(ps) + 1]

ClassifyOutputFirst(status, stdout, stderr) ==
  IF stdout = <<>>
  THEN Err(<<"PlantUML generated empty output. Stderr: ">>, stderr)
  ELSE IF status # 0
  THEN Err(<<"PlantUML process failed: ">>, stderr)
  ELSE Ok(stdout)

\* generate, after wait_with_output: exit status, then empty output, then Ok
Classify(status, stdout, stderr) ==
  IF status # 0
  THEN Err(<<"PlantUML process failed: ">>, stderr)
  ELSE IF stdout = <<>>
  THEN Err(<<"PlantUML generated empty output. Stderr: ">>, stderr)
  ELSE Ok(stdout)

\* the match on executor.generate(..) in generate_diagram
GenerateResponse(res, format) ==
  IF res.ok
  THEN [status |-> 200, content_type |-> content_type(format), body |-> res.val,
        msg |-> <<>>, detail |-> NoDetail]
  ELSE JsonError(500, <<"Diagram generation failed: ">> \o res.msg, res.detail)

\* ------------------------------------------------------------- handlers
Finish(r, res, resp) ==
  /\ pc' = [pc EXCEPT ![r] = "done"]
  /\ result' = [result EXCEPT ![r] = res]
  /\ response' = [response EXCEPT ![r] = resp]

\* render_encoded up to its call of generate_diagram
RenderEncoded(r) ==
  /\ pc[r] = "start"
  /\ req[r].kind = "encoded"
  /\ \E lenient \in BOOLEAN :
       LET d == decode_plantuml(req[r].token, lenient)
       IN IF d.ok
          THEN /\ source' = [source EXCEPT ![r] = d.text]
               /\ pc' = [pc EXCEPT ![r] = "generate"]
               /\ UNCHANGED <<result, response>>
          ELSE /\ Finish(r, NoResult,
                         JsonError(400, <<"Invalid PlantUML encoding: ">> \o d.msg, d.detail))
               /\ UNCHANGED source
  /\ UNCHANGED <<req, written, child, procs>>

\* generate_diagram up to the first await of generate (the write to stdin)
GenerateDiagram(r) ==
  /\ \/ pc[r] = "start" /\ req[r].kind = "body"
     \/ pc[r] = "generate"
  /\ LET bytes == IF pc[r] = "start" THEN req[r].body ELSE source[r]
     IN IF ~Utf8Valid(bytes)
        THEN /\ Finish(r, NoResult,
                       JsonError(400, <<"Invalid UTF-8 in request body: ">>,
                                 CauseDetail("FromUtf8Error")))
             /\ UNCHANGED <<source, written, child, procs>>
        ELSE IF TrimIsEmpty(bytes)
        THEN /\ Finish(r, NoResult, JsonError(400, <<"Empty PlantUML source">>, NoDetail))
             /\ UNCHANGED <<source, written, child, procs>>
        ELSE \E env \in {"ok", "no-tempdir", "no-spawn"} :
               IF env = "ok"
               THEN LET sp == Spawn(procs, as_flag(req[r].format))
                    IN /\ procs' = sp.procs
                       /\ child' = [child EXCEPT ![r] = sp.pid]
                       /\ source' = [source EXCEPT ![r] = bytes]
                       /\ written' = [written EXCEPT ![r] = 0]
                       /\ pc' = [pc EXCEPT ![r] = "write"]
                       /\ UNCHANGED <<result, response>>
               ELSE LET res == Err(IF env = "no-tempdir"
                                   THEN <<"Failed to create temp directory">>
                                   ELSE <<"Failed to spawn PlantUML process">>,
                                   NoDetail)
                    IN /\ Finish(r, res, GenerateResponse(res, req[r].format))
                       /\ UNCHANGED <<source, written, child, procs>>
  /\ UNCHANGED req

\* one poll_write of stdin.write_all(source.as_bytes()): as much as the pipe
\* takes; write_all returns when everything is written
WriteChunk(r) ==
  /\ pc[r] = "write"
  /\ LET p == child[r]
         n == Min(PipeCap - Len(procs[p].buf), Len(source[r]) - written[r])
         chunk == SubSeq(source[r], written[r] + 1, written[r] + n)
     IN /\ procs[p].rdOpen
        /\ procs[p].stdinOpen
        /\ n > 0
        /\ procs' = [procs EXCEPT ![p].buf = @ \o chunk, ![p].fed = @ \o chunk]
        /\ written' = [written EXCEPT ![r] = @ + n]
        /\ pc' = [pc EXCEPT ![r] = IF written[r] + n = Len(source[r]) THEN "flush" ELSE "write"]
  /\ UNCHANGED <<req, source, child, result, response>>

\* the write fails (broken pipe): `?` returns the error; child and stdin are
\* dropped without waiting for the process
WriteFail(r) ==
  /\ pc[r] = "write"
  /\ LET p == child[r]
         res == Err(<<"Failed to write to PlantUML stdin">>, NoDetail)
     IN /\ ~procs[p].rdOpen
        /\ procs' = [procs EXCEPT ![p].stdinOpen = FALSE]
        /\ Finish(r, res, GenerateResponse(res, req[r].format))
  /\ UNCHANGED <<req, source, written, child>>

\* stdin.flush().await?: nothing is buffered in ChildStdin
Flush(r) ==
  /\ pc[r] = "flush"
  /\ pc' = [pc EXCEPT ![r] = "close"]
  /\ UNCHANGED <<req, source, written, child, result, response, procs>>

CloseStdin_Kept(r) ==
  /\ pc[r] = "close"
  /\ pc' = [pc EXCEPT ![r] = "wait"]
  /\ UNCHANGED <<req, source, written, child, result, response, procs>>

\* drop(stdin)
CloseStdin(r) ==
  /\ pc[r] = "close"
  /\ procs' = [procs EXCEPT ![child[r]].stdinOpen = FALSE]
  /\ pc' = [pc EXCEPT ![r] = "wait"]
  /\ UNCHANGED <<req, source, written, child, result, response>>

\* child.wait_with_output() completes once the process has exited; then the
\* outcome is classified and turned into the response
WaitWithOutput(r) ==
  /\ pc[r] = "wait"
  /\ LET p == child[r]
         res == Classify(procs[p].status, procs[p].stdout, procs[p].stderr)
     IN /\ procs[p].state = "exited"
        /\ procs' = [procs EXCEPT ![p].awaited = TRUE]
        /\ Finish(r, res, GenerateResponse(res, req[r].format))
  /\ UNCHANGED <<req, source, written, child>>

\* ------------------------------------------------- the engine subprocess
EngineRead(p) ==
  /\ p <= Len(procs)
  /\ procs[p].state = "running"
  /\ procs[p].rdOpen
  /\ procs[p].buf # <<>>
  /\ procs' = [procs EXCEPT ![p].received = @ \o procs[p].buf, ![p].buf = <<>>]
  /\ UNCHANGED <<req, pc, source, written, child, result, response>>

\* the engine closes its standard input without reading further
EngineCloseStdin(p) ==
  /\ p <= Len(procs)
  /\ procs[p].state = "running"
  /\ procs[p].rdOpen
  /\ procs' = [procs EXCEPT ![p].rdOpen = FALSE, ![p].buf = <<>>]
  /\ UNCHANGED <<req, pc, source, written, child, result, response>>

\* at end of input (or after it gave up reading) the engine writes its
\* output and exits, with any exit status and with or without output
EngineFinish(p) ==
  /\ p <= Len(procs)
  /\ procs[p].state = "running"
  /\ \/ ~procs[p].rdOpen
     \/ procs[p].buf = <<>> /\ ~procs[p].stdinOpen
  /\ \E status \in {0, 1}, produce \in BOOLEAN :
       procs' = [procs EXCEPT
                   ![p].state = "exited", ![p].rdOpen = FALSE, ![p].buf = <<>>,
                   ![p].status = status,
                   ![p].stdout = IF produce THEN Render(procs[p].flag, procs[p].received)
                                 ELSE <<>>,
                   ![p].stderr = StderrText(p, "diagnostic")]
  /\ UNCHANGED <<req, pc, source, written, child, result, response>>

\* the engine dies before the end of its input, with a non-zero status
EngineAbort(p) ==
  /\ p <= Len(procs)
  /\ procs[p].state = "running"
  /\ procs[p].rdOpen
  /\ procs' = [procs EXCEPT
                 ![p].state = "exited", ![p].rdOpen = FALSE, ![p].buf = <<>>,
                 ![p].status = 1,
                 ![p].stderr = StderrText(p, "fatal")]
  /\ UNCHANGED <<req, pc, source, written, child, result, response>>

\* ------------------------------------------------------- specifications
InitWith(reqs) ==
  /\ req = reqs
  /\ pc = [r \in Requests |-> IF reqs[r].kind = "none" THEN "none" ELSE "start"]
  /\ source = [r \in Requests |-> <<>>]
  /\ written = [r \in Requests |-> 0]
  /\ child = [r \in Requests |-> 0]
  /\ result = [r \in Requests |-> NoResult]
  /\ response = [r \in Requests |-> NoResponse]
  /\ procs = <<>>

\* one request, any input
Init ==
  \E q \in BodyReqs(Bodies) \cup EncodedReqs(Tokens) :
    InitWith([r \in Requests |-> IF r = 1 THEN q ELSE NoReq])

ConcBodies == { <<65>>, <<32, 66>> }

ConcReqs == BodyReqs(ConcBodies) \cup EncodedReqs({ PlantumlEncode(<<65>>) })

\* two concurrent requests
InitConc ==
  \E q1 \in ConcReqs, q2 \in ConcReqs :
    InitWith([r \in Requests |-> IF r = 1 THEN q1 ELSE q2])

Next ==
  \/ \E r \in Requests : RenderEncoded(r)
  \/ \E r \in Requests : GenerateDiagram(r)
  \/ \E r \in Requests : WriteChunk(r)
  \/ \E r \in Requests : WriteFail(r)
  \/ \E r \in Requests : Flush(r)
  \/ \E r \in Requests : CloseStdin(r)
  \/ \E r \in Requests : WaitWithOutput(r)
  \/ \E p \in Pids : EngineRead(p)
  \/ \E p \in Pids : EngineCloseStdin(p)
  \/ \E p \in Pids : EngineFinish(p)
  \/ \E p \in Pids : EngineAbort(p)

Spec == Init /\ [][Next]_vars

ConcSpec == InitConc /\ [][Next]_vars

\* one step of generate after the launch of its subprocess
GenerateStep(r) ==
  \/ WriteChunk(r)
  \/ WriteFail(r)
  \/ Flush(r)
  \/ CloseStdin(r)
  \/ WaitWithOutput(r)

\* one step of an engine that reads its input to the end and then finishes
EngineProgress(p) == EngineRead(p) \/ EngineFinish(p)

\* a task that can run is polled by the runtime, and an engine that can read
\* or finish is scheduled by the kernel; nothing obliges it to give up early
Fairness ==
  /\ \A r \in Requests : WF_vars(GenerateStep(r))
  /\ \A p \in Pids : WF_vars(EngineProgress(p))

\* one request: a body, or the token an encoder made of a body
InitLive ==
  \E q \in BodyReqs(Bodies) \cup EncodedReqs({ PlantumlEncode(s) : s \in Bodies }) :
    InitWith([r \in Requests |-> IF r = 1 THEN q ELSE NoReq])

LiveSpec == InitLive /\ [][Next]_vars /\ Fairness

\* ---------------------------------------------------------------- claims
Owned(r) == child[r] # 0

Proc(r) == procs[child[r]]

RenderFailedMsg == <<"PlantUML process failed: ">>

EmptyOutputMsg == <<"PlantUML generated empty output. Stderr: ">>

\* the handler answered with a decode failure
DecodeRejected(r) ==
  /\ pc[r] = "done"
  /\ response[r].status = 400
  /\ response[r].msg # <<>>
  /\ response[r].msg[1] = "Invalid PlantUML encoding: "

EmptyInputResponse == JsonError(400, <<"Empty PlantUML source">>, NoDetail)

\* C1: once generate has collected exit status, stdout and stderr, a non-zero
\* exit gives RenderFailed (whatever stdout holds), a zero exit with empty
\* stdout gives EmptyOutput, and a zero exit with non-empty stdout gives Ok
\* with exactly the stdout bytes.
C1_Classification ==
  \A r \in Requests :
    (pc[r] = "done" /\ Owned(r) /\ Proc(r).awaited) =>
      /\ Proc(r).status # 0 =>
           result[r] = Err(RenderFailedMsg, Proc(r).stderr)
      /\ (Proc(r).status = 0 /\ Proc(r).stdout = <<>>) =>
           result[r] = Err(EmptyOutputMsg, Proc(r).stderr)
      /\ (Proc(r).status = 0 /\ Proc(r).stdout # <<>>) =>
           result[r] = Ok(Proc(r).stdout)

C1_Witness ==
  \E r \in Requests :
    /\ pc[r] = "done" /\ Owned(r) /\ Proc(r).awaited
    /\ Proc(r).status # 0
    /\ Proc(r).stdout # <<>>
    /\ result[r].msg = RenderFailedMsg

\* C2: whenever the engine of an invocation has exited with a non-zero status
\* and generate has returned, the failure returned (and the response built
\* from it) carries that engine's standard-error text.
C2_StderrSurfaced ==
  \A r \in Requests :
    (pc[r] = "done" /\ Owned(r) /\ Proc(r).state = "exited" /\ Proc(r).status # 0) =>
      /\ ~result[r].ok
      /\ result[r].detail = Proc(r).stderr
      /\ response[r].detail = Proc(r).stderr

\* C3: while generate waits for the exit of its subprocess, the whole source
\* has been written to the subprocess's stdin and stdin is closed; and every
\* invocation that starts writing eventually returns.
C3_Closed ==
  \A r \in Requests :
    pc[r] = "wait" =>
      /\ ~Proc(r).stdinOpen
      /\ written[r] = Len(source[r])
      /\ Proc(r).fed = source[r]

C3_CloseThenWait ==
  /\ []C3_Closed
  /\ \A r \in Requests : (pc[r] = "write") ~> (pc[r] = "done")

C3_Witness ==
  \E r \in Requests :
    /\ pc[r] = "done" /\ Owned(r) /\ Proc(r).awaited
    /\ Proc(r).received = source[r]
    /\ Len(source[r]) >= 2
    /\ result[r].ok

CustomSymbols == Range(Digits) \cup Range(Upper) \cup Range(Lower) \cup {"-", "_"}

HasOffending(t) == \E i \in 1..Len(t) : t[i] \notin CustomSymbols

FirstOffending(t) ==
  t[CHOOSE i \in 1..Len(t) :
      /\ t[i] \notin CustomSymbols
      /\ \A j \in 1..(i-1) : t[j] \in CustomSymbols]

\* C4: a token with a character outside 0-9A-Za-z-_ is answered, as soon as
\* the handler has run, with the invalid-encoding error naming the first such
\* character, and no subprocess is launched for it.
C4_AlphabetRejection ==
  \A r \in Requests :
    (req[r].kind = "encoded" /\ HasOffending(req[r].token) /\ pc[r] # "start") =>
      /\ pc[r] = "done"
      /\ response[r] = JsonError(400,
                                 <<"Invalid PlantUML encoding: ",
                                   "Invalid character in encoding: ">>,
                                 CharDetail(FirstOffending(req[r].token)))
      /\ ~Owned(r)
      /\ procs = <<>>

C4_Witness ==
  \E r \in Requests :
    /\ req[r].kind = "encoded" /\ pc[r] = "done"
    /\ Len(req[r].token) = 4
    /\ req[r].token[1] \in CustomSymbols
    /\ req[r].token[2] \in CustomSymbols
    /\ req[r].token[3] = "="
    /\ req[r].token[4] = "!"
    /\ response[r].detail = CharDetail("=")

\* C5: a request whose source text (the body, or the text a token decoded
\* to) is empty or all whitespace is answered with the empty-input error
\* and has no subprocess.
C5_EmptyInput ==
  \A r \in Requests :
    /\ (req[r].kind = "body" /\ pc[r] # "start"
          /\ Utf8Valid(req[r].body)
          /\ \A i \in 1..Len(req[r].body) : IsWhitespace(req[r].body[i])) =>
         /\ pc[r] = "done" /\ response[r] = EmptyInputResponse /\ ~Owned(r)
    /\ (req[r].kind = "encoded" /\ pc[r] \notin {"start", "generate"}
          /\ ~DecodeRejected(r)
          /\ \A i \in 1..Len(source[r]) : IsWhitespace(source[r][i])) =>
         /\ pc[r] = "done" /\ response[r] = EmptyInputResponse /\ ~Owned(r)

C5_Witness ==
  \E r \in Requests :
    /\ req[r].kind = "encoded"
    /\ req[r].token = PlantumlEncode(<<32>>)
    /\ pc[r] = "done"
    /\ source[r] = <<32>>
    /\ response[r] = EmptyInputResponse

\* the error class of a finished, failed request
ErrorClass(r) ==
  LET m == response[r].msg
  IN IF m[1] = "Invalid PlantUML encoding: "
     THEN (CASE m[2] = "Invalid character in encoding: " -> "InvalidEncoding"
             [] m[2] = "Base64 decode failed: " -> "Base64DecodeFailed"
             [] m[2] = "Decompression failed: " -> "DecompressionFailed")
     ELSE IF m[1] = "Empty PlantUML source" THEN "EmptyInput"
     ELSE IF m[1] = "Invalid UTF-8 in request body: " THEN "InvalidUtf8"
     ELSE (CASE <<m[2]>> = EmptyOutputMsg -> "EmptyOutput"
             [] <<m[2]>> = RenderFailedMsg -> "RenderFailed"
             [] m[2] = "Failed to spawn PlantUML process" -> "EngineUnavailable"
             [] OTHER -> "Other")

ClientInputClasses ==
  {"InvalidEncoding", "Base64DecodeFailed", "DecompressionFailed", "EmptyInput", "EmptyOutput"}

\* C6: every failed request is answered with the status category of its
\* error class: the client-input classes with a 4xx status, EngineUnavailable
\* with a 5xx status.
C6_StatusCategory ==
  \A r \in Requests :
    (pc[r] = "done" /\ response[r].status # 200) =>
      /\ ErrorClass(r) \in ClientInputClasses =>
           (response[r].status >= 400 /\ response[r].status < 500)
      /\ ErrorClass(r) = "EngineUnavailable" => response[r].status >= 500

\* C7: for every source text s, the token an encoder makes of s (compress,
\* 6-bit groups, custom alphabet) is decoded by decode_plantuml back to s.
C7_RoundTrip ==
  \A r \in Requests :
    (req[r].kind = "encoded" /\ pc[r] # "start") =>
      \A s \in Bodies :
        (Utf8Valid(s) /\ req[r].token = PlantumlEncode(s)) =>
          (~DecodeRejected(r) /\ source[r] = s)

\* C8: every request that launched a subprocess has one of its own; that
\* subprocess was fed nothing but the request's own source, and what the
\* request returns is the output, or the diagnostic, of that subprocess.
C8_Isolation ==
  /\ Len(procs) = Cardinality({ r \in Requests : Owned(r) })
  /\ \A r \in Requests :
       Owned(r) =>
         /\ \A r2 \in Requests \ {r} : child[r2] # child[r]
         /\ IsPrefix(Proc(r).fed, source[r])
         /\ IsPrefix(Proc(r).received, source[r])
         /\ (pc[r] = "done" /\ result[r].ok) =>
              /\ response[r].body = Proc(r).stdout
              /\ \E k \in 0..Len(source[r]) :
                   response[r].body = Render(as_flag(req[r].format), SubSeq(source[r], 1, k))
         /\ (pc[r] = "done" /\ result[r].detail.kind = "stderr") =>
              /\ result[r].detail.pid = child[r]
              /\ response[r].detail = Proc(r).stderr

C8_Witness ==
  /\ \A r \in Requests : pc[r] = "done" /\ result[r].ok
  /\ source[1] # source[2]
  /\ response[1].body # response[2].body

\* C9: a successful response carries the content type fixed for the requested
\* format, and the engine was launched with the selector of that format.
C9_FormatSelection ==
  \A r \in Requests :
    (pc[r] = "done" /\ response[r].status = 200) =>
      /\ Owned(r)
      /\ req[r].format = "Svg" =>
           (Proc(r).flag = "-tsvg" /\ response[r].content_type = "image/svg+xml")
      /\ req[r].format = "Png" =>
           (Proc(r).flag = "-tpng" /\ response[r].content_type = "image/png")
      /\ req[r].format = "Txt" =>
           (Proc(r).flag = "-txt" /\ response[r].content_type = "text/plain")

C9_Witness ==
  \E r \in Requests :
    /\ req[r].kind = "encoded" /\ req[r].format = "Png"
    /\ pc[r] = "done" /\ response[r].status = 200
    /\ response[r].content_type = "image/png"

\* C10: when generate has returned after launching a subprocess, it has
\* awaited that subprocess, which has exited.
C10_AwaitedBeforeReturn ==
  \A r \in Requests :
    (pc[r] = "done" /\ Owned(r)) =>
      (Proc(r).awaited /\ Proc(r).state = "exited")

====
